---- MODULE Spec2Model ----
(***************************************************************************)
(* deepsize: recursive measurement of the memory a value owns.             *)
(*                                                                         *)
(* A value is a record tree.  Shared allocations (Arc, Rc) and the targets *)
(* of borrowed references live in `heap`, keyed by location.  A top-level  *)
(* deep_size_of call creates a Context and walks the value depth first;    *)
(* the walk is modelled with an explicit call stack, one frame per active  *)
(* deep_size_of_children call.                                             *)
(***************************************************************************)
EXTENDS Integers, Sequences, FiniteSets, TLC

VARIABLES
    subject,    \* the value the program holds (fields in declaration order)
    heap,       \* location -> value stored there
    phase,      \* "compile" | "compile_error" | "idle" | "measuring" | "done" | "overflow"
    expanded,   \* result of derive_deep_size for the subject's type
    order,      \* field order of the aggregate being measured
    root,       \* the value handed to deep_size_of
    context,    \* the Context of the running deep_size_of call
    stack,      \* active deep_size_of_children calls, innermost last
    returned,   \* the call that returned last: its value and results
    total,      \* result of the last finished deep_size_of call
    prev,       \* order and result of the deep_size_of call before that
    layout,     \* call path -> stack address of `self` in <&T>::deep_size_of_children
    visits,     \* location -> number of Arc/Rc/& pointer visits in this traversal
    entered     \* location -> number of times its pointee was recursed into

vars == <<subject, heap, phase, expanded, order, root, context, stack,
          returned, total, prev, layout, visits, entered>>

----------------------------------------------------------------------------
(* Bounds *)

MaxDepth == 12      \* call-stack frames available before stack exhaustion
MaxLen   == 2       \* elements of a generated container
MaxSlack == 2       \* unused capacity of a generated container

(* cfg(target_pointer_width = "64") *)
PtrW == 8

----------------------------------------------------------------------------
(* Values *)

NoEt == [k |-> 0, v |-> 0, niche |-> FALSE]

V(kind, size, loc, kids, cap, et, shape) ==
    [kind |-> kind, size |-> size, loc |-> loc, kids |-> kids,
     cap |-> cap, et |-> et, shape |-> shape]

Prim(s)        == V("Prim", s, "", <<>>, 0, NoEt, "")
StringOf(c)    == V("String", 0, "", <<>>, c, NoEt, "")
BoxOf(v)       == V("Box", 0, "", <<v>>, 0, NoEt, "")
ArcOf(l)       == V("Arc", 0, l, <<>>, 0, NoEt, "")
RcOf(l)        == V("Rc", 0, l, <<>>, 0, NoEt, "")
RefOf(l)       == V("Ref", 0, l, <<>>, 0, NoEt, "")
TupleOf(fs)    == V("Tuple", 0, "", fs, 0, NoEt, "")
StructOf(sh, fs) == V("Struct", 0, "", fs, 0, NoEt, sh)
EnumOf(fs)     == V("Enum", 0, "", fs, 0, NoEt, "Unnamed")
VecOf(es, c, e)  == V("Vec", 0, "", es, c, [k |-> e, v |-> 0, niche |-> FALSE], "")
ListOf(es)     == V("List", 0, "", es, 0, NoEt, "")
\* kids of a map are key1, value1, key2, value2, ...
MapOf(kvs, c, ks, vs, n) == V("Map", 0, "", kvs, c, [k |-> ks, v |-> vs, niche |-> n], "")

ArcLocs == {"a1", "a2"}
RcLocs  == {"r1"}
RefLocs == {"x1", "x2"}
Locs    == ArcLocs \cup RcLocs \cup RefLocs

RECURSIVE SumSeq(_)
SumSeq(s) == IF s = <<>> THEN 0 ELSE Head(s) + SumSeq(Tail(s))

Max(S) == CHOOSE m \in S : \A x \in S : x <= m

RoundUp(n, a) == ((n + a - 1) \div a) * a

(* std::mem::align_of for the modelled types *)
RECURSIVE AlignOf(_)
AlignOf(v) ==
    CASE v.kind = "Prim" -> IF v.size = 0 THEN 1 ELSE v.size
      [] v.kind \in {"Tuple", "Struct"} ->
            Max({1} \cup {AlignOf(v.kids[i]) : i \in DOMAIN v.kids})
      [] OTHER -> PtrW

(* std::mem::size_of_val: the immediate size of a value *)
RECURSIVE ImmSize(_)
ImmSize(v) ==
    CASE v.kind = "Prim" -> v.size
      [] v.kind \in {"Box", "Arc", "Rc", "Ref"} -> PtrW
      [] v.kind \in {"Vec", "String", "List"} -> 3 * PtrW
      [] v.kind = "Map" -> 6 * PtrW
      [] v.kind \in {"Tuple", "Struct"} ->
            RoundUp(SumSeq([i \in DOMAIN v.kids |-> ImmSize(v.kids[i])]), AlignOf(v))
      [] OTHER -> 0

(* size_of::<Option<(u64, K, V)>>(): hash, key and value rounded to the     *)
(* alignment of u64, plus a discriminant word unless K or V has a niche.    *)
BucketSize(et) ==
    RoundUp(8 + et.k + et.v, 8) + (IF et.niche THEN 0 ELSE 8)

----------------------------------------------------------------------------
(* Context *)

\* the Context of the call before, kept
Context_stale == context
Context_new == [arcs |-> {}, rcs |-> {}, refs |-> {}]

add_arc_one_set(c, ptr) == [c EXCEPT !.arcs = @ \cup {ptr}, !.rcs = @ \cup {ptr}]
add_arc(c, ptr)      == [c EXCEPT !.arcs = @ \cup {ptr}]
contains_arc_never(c, ptr) == FALSE
contains_arc(c, ptr) == ptr \in c.arcs
add_rc(c, ptr)       == [c EXCEPT !.rcs = @ \cup {ptr}]
contains_rc(c, ptr)  == ptr \in c.rcs
add_ref_replace(c, ptr) == [c EXCEPT !.refs = {ptr}]
add_ref(c, ptr)      == [c EXCEPT !.refs = @ \cup {ptr}]
contains_ref(c, ptr) == ptr \in c.refs

----------------------------------------------------------------------------
(* deepsize_derive: the DeepSizeOf derive macro *)

(* The syn::Data of a type definition *)
DataOf(v) ==
    [kind |-> v.kind, fields |-> v.shape, n |-> Len(v.kids)]

Panicked(msg) == [panicked |-> TRUE, message |-> msg, sum |-> <<>>]
Tokens(terms) == [panicked |-> FALSE, message |-> "", sum |-> terms]
NotExpanded   == [panicked |-> FALSE, message |-> "none", sum |-> <<>>]

deepsize_sum_enum_zero(data) ==
    IF data.kind = "Struct" THEN Tokens([i \in 1..data.n |-> i]) ELSE Tokens(<<>>)

deepsize_sum_skip_first(data) ==
    IF data.kind = "Struct"
    THEN Tokens([i \in 1..(IF data.n = 0 THEN 0 ELSE data.n - 1) |-> i + 1])
    ELSE Panicked("not implemented")

(* The generated expression `0 + f(self.a) + f(self.b) ...` is kept as the  *)
(* sequence of the fields it names, in the order it names them.             *)
deepsize_sum(data) ==
    CASE data.kind = "Struct" /\ data.fields = "Named" ->
            Tokens([i \in 1..data.n |-> i])
      [] data.kind = "Struct" /\ data.fields = "Unnamed" ->
            Tokens([i \in 1..data.n |-> i])
      [] data.kind = "Struct" /\ data.fields = "Unit" ->
            Tokens(<<>>)
      [] OTHER -> Panicked("not implemented")

----------------------------------------------------------------------------
(* The measured values *)

ArcContents(l) ==
    IF l = "a1" THEN {Prim(4), TupleOf(<<ArcOf("a2"), Prim(1)>>), BoxOf(ArcOf("a2"))}
                ELSE {Prim(1), TupleOf(<<ArcOf("a1")>>)}
RcContents(l) == {Prim(4), TupleOf(<<RcOf("r1")>>), TupleOf(<<ArcOf("a1"), Prim(4)>>)}
RefContents(l) ==
    IF l = "x1" THEN {Prim(4), TupleOf(<<RefOf("x2")>>)}
                ELSE {Prim(1), TupleOf(<<RefOf("x1")>>), ArcOf("a1")}

Contents(l) ==
    IF l \in ArcLocs THEN ArcContents(l)
    ELSE IF l \in RcLocs THEN RcContents(l) ELSE RefContents(l)

DefaultContent(l) == IF l \in {"a1", "r1", "x1"} THEN Prim(4) ELSE Prim(1)

FieldVals ==
    {Prim(1), Prim(4), StringOf(5), BoxOf(Prim(1)), BoxOf(ArcOf("a1")),
     ArcOf("a1"), ArcOf("a2"), RcOf("r1"), RefOf("x1"), RefOf("x2"),
     TupleOf(<<RefOf("x1")>>), TupleOf(<<ArcOf("a2"), RcOf("r1")>>)}

FewFieldVals == {Prim(4), BoxOf(Prim(1)), ArcOf("a1"), RefOf("x1")}
SharedVals  == {Prim(4), ArcOf("a1"), ArcOf("a2")}

SeqsUpTo(S, n) == UNION {[1..k -> S] : k \in 0..n}

Structs ==
    {StructOf("Unit", <<>>)}
    \cup {StructOf("Named", fs) : fs \in SeqsUpTo(FieldVals, 2)}
    \cup {StructOf("Unnamed", fs) : fs \in SeqsUpTo(FewFieldVals, 2)}
    \cup {StructOf("Named", fs) : fs \in [1..3 -> SharedVals]}

Enums == {EnumOf(<<>>), EnumOf(<<Prim(4), BoxOf(Prim(1))>>),
          V("Union", 0, "", <<Prim(4)>>, 0, NoEt, "Named")}

(* Element types of the generated containers: immediate size, niche, values *)
ElemTypes ==
    {[size |-> 1, niche |-> FALSE, vals |-> {Prim(1)}],
     [size |-> PtrW, niche |-> TRUE, vals |-> {BoxOf(Prim(4))}],
     [size |-> PtrW, niche |-> TRUE, vals |-> {ArcOf("a1"), ArcOf("a2")}],
     [size |-> 3 * PtrW, niche |-> TRUE, vals |-> {StringOf(5)}]}

Rep(v, n) == [i \in 1..n |-> v]

Vecs ==
    UNION {{VecOf(es, Len(es) + sl, t.size) :
                es \in SeqsUpTo(t.vals, MaxLen), sl \in 0..MaxSlack} : t \in ElemTypes}
    \cup {VecOf(Rep(Prim(1), 13), 16, 1)}

Lists ==
    UNION {{ListOf(es) : es \in SeqsUpTo(t.vals, MaxLen)} : t \in ElemTypes}
    \cup {ListOf(Rep(Prim(1), 13))}

KeyTypes ==
    {[size |-> 4, niche |-> FALSE, vals |-> {Prim(4)}],
     [size |-> PtrW, niche |-> TRUE, vals |-> {BoxOf(Prim(4))}]}

Interleave(ks, vs) ==
    [i \in 1..(2 * Len(ks)) |-> IF i % 2 = 1 THEN ks[(i + 1) \div 2] ELSE vs[i \div 2]]

MapsOf(kt, vt) ==
    UNION {{MapOf(Interleave(ks, vs), n + sl, kt.size, vt.size, kt.niche \/ vt.niche) :
                ks \in [1..n -> kt.vals], vs \in [1..n -> vt.vals], sl \in 0..MaxSlack} :
           n \in 0..MaxLen}

Maps == UNION {MapsOf(kt, vt) : kt \in KeyTypes, vt \in ElemTypes}

Subjects == Structs \cup Enums \cup Vecs \cup Lists \cup Maps

(* Locations a value can reach through pointers, following `h` *)
RECURSIVE Reach(_, _, _)
Reach(v, h, seen) ==
    IF v.kind \in {"Arc", "Rc", "Ref"}
    THEN IF v.loc \in seen THEN seen
         ELSE Reach(h[v.loc], h, seen \cup {v.loc})
    ELSE IF v.kids = <<>> THEN seen
    ELSE LET RECURSIVE Walk(_, _)
             Walk(i, acc) ==
                 IF i > Len(v.kids) THEN acc
                 ELSE Walk(i + 1, Reach(v.kids[i], h, acc))
         IN Walk(1, seen)

Perms(n) == {p \in [1..n -> 1..n] : \A i, j \in 1..n : p[i] = p[j] => i = j}

Orders(v) ==
    IF v.kind = "Struct" THEN Perms(Len(v.kids)) ELSE {[i \in 1..Len(v.kids) |-> i]}

Permuted(v, p) == [v EXCEPT !.kids = [i \in 1..Len(p) |-> v.kids[p[i]]]]

----------------------------------------------------------------------------
(* State *)

NoReturn == [fn |-> "none", val |-> Prim(0), ret |-> 0, rets |-> <<>>,
             nth |-> 0, path |-> <<>>]
NoPrev   == [order |-> <<>>, total |-> -1]
Zeroes   == [l \in Locs |-> 0]
\* before the first deep_size_of call there is no Context
NoContext == [arcs |-> {}, rcs |-> {}, refs |-> {}]

Init ==
    /\ subject \in Subjects
    /\ \E c1 \in Contents("a1"), c2 \in Contents("a2"), c3 \in Contents("r1"),
          c4 \in Contents("x1"), c5 \in Contents("x2") :
         /\ heap = [l \in Locs |->
                       CASE l = "a1" -> c1 [] l = "a2" -> c2 [] l = "r1" -> c3
                         [] l = "x1" -> c4 [] OTHER -> c5]
         /\ \A l \in Locs \ Reach(subject, heap, {}) : heap[l] = DefaultContent(l)
    /\ phase = IF subject.kind \in {"Struct", "Enum", "Union"} THEN "compile" ELSE "idle"
    /\ expanded = NotExpanded
    /\ order = <<>>
    /\ root = subject
    /\ context = NoContext
    /\ stack = <<>>
    /\ returned = NoReturn
    /\ total = 0
    /\ prev = NoPrev
    /\ layout = <<>>
    /\ visits = Zeroes
    /\ entered = Zeroes

----------------------------------------------------------------------------
(* Call frames *)

Frame(fn, v, kids, acc, path, slot, nth) ==
    [fn |-> fn, val |-> v, kids |-> kids, i |-> 1, acc |-> acc, rets |-> <<>>,
     path |-> path, slot |-> slot, nth |-> nth]

Top == stack[Len(stack)]

(* The top frame is about to call deep_size_of_children on Callee *)
CanCall ==
    /\ phase = "measuring"
    /\ stack # <<>>
    /\ Len(stack) < MaxDepth
    /\ Top.i <= Len(Top.kids)

Callee == Top.kids[Top.i]

(* The call site: one per field of an aggregate, one per loop of a container *)
Site ==
    CASE Top.fn = "deep_size_of" -> 1
      [] Top.val.kind \in {"Vec", "List"} -> 1
      [] Top.val.kind = "Map" -> 2 - (Top.i % 2)
      [] OTHER -> Top.i

CalleePath == Append(Top.path, Site)

Push(f) == stack' = Append([stack EXCEPT ![Len(stack)].i = @ + 1], f)

Bump(f, l) == [f EXCEPT ![l] = @ + 1]

----------------------------------------------------------------------------
(* Compile time: #[derive(DeepSizeOf)] on the subject's type *)

derive_deep_size ==
    /\ phase = "compile"
    /\ expanded' = deepsize_sum(DataOf(subject))
    /\ phase' = IF expanded'.panicked THEN "compile_error" ELSE "idle"
    /\ UNCHANGED <<subject, heap, order, root, context, stack, returned, total,
                   prev, layout, visits, entered>>

----------------------------------------------------------------------------
(* DeepSizeOf::deep_size_of:                                               *)
(*   size_of_val(self) + self.deep_size_of_children(&mut Context::new())   *)

deep_size_of(p) ==
    /\ phase \in {"idle", "done"}
    /\ order' = p
    /\ root' = Permuted(subject, p)
    /\ context' = Context_new
    /\ stack' = <<Frame("deep_size_of", root', <<root'>>, ImmSize(root'), <<>>, 0, 0)>>
    /\ prev' = IF phase = "done" THEN [order |-> order, total |-> total] ELSE prev
    /\ phase' = "measuring"
    /\ returned' = NoReturn
    /\ visits' = Zeroes
    /\ entered' = Zeroes
    /\ UNCHANGED <<subject, heap, expanded, total, layout>>

Kept == UNCHANGED <<subject, heap, phase, expanded, order, root, returned, total, prev>>

(* known_deep_size!(0, ...): scalars own nothing *)
known_deep_size ==
    /\ CanCall
    /\ Callee.kind = "Prim"
    /\ Push(Frame("children", Callee, <<>>, 0, CalleePath, 0, 0))
    /\ Kept
    /\ UNCHANGED <<context, layout, visits, entered>>

(* String: the capacity of the buffer *)
String_children ==
    /\ CanCall
    /\ Callee.kind = "String"
    /\ Push(Frame("children", Callee, <<>>, Callee.cap, CalleePath, 0, 0))
    /\ Kept
    /\ UNCHANGED <<context, layout, visits, entered>>

(* Box<T>: size_of_val(val) + val.deep_size_of_children(context) *)
Box_children ==
    /\ CanCall
    /\ Callee.kind = "Box"
    /\ Push(Frame("children", Callee, Callee.kids, ImmSize(Callee.kids[1]),
                  CalleePath, 0, 0))
    /\ Kept
    /\ UNCHANGED <<context, layout, visits, entered>>

(* Arc<T>: 0 when the Context has the allocation, else add it and count it *)
Arc_children ==
    /\ CanCall
    /\ Callee.kind = "Arc"
    /\ LET l == Callee.loc
           n == visits[l] + 1
       IN  /\ visits' = Bump(visits, l)
           /\ IF contains_arc(context, l)
              THEN /\ Push(Frame("children", Callee, <<>>, 0, CalleePath, 0, n))
                   /\ UNCHANGED <<context, entered>>
              ELSE /\ context' = add_arc(context, l)
                   /\ entered' = Bump(entered, l)
                   /\ Push(Frame("children", Callee, <<heap[l]>>, ImmSize(heap[l]),
                                 CalleePath, 0, n))
    /\ Kept
    /\ UNCHANGED layout

(* Rc<T>: as Arc<T>, against the set of Rcs *)
Rc_children ==
    /\ CanCall
    /\ Callee.kind = "Rc"
    /\ LET l == Callee.loc
           n == visits[l] + 1
       IN  /\ visits' = Bump(visits, l)
           /\ IF contains_rc(context, l)
              THEN /\ Push(Frame("children", Callee, <<>>, 0, CalleePath, 0, n))
                   /\ UNCHANGED <<context, entered>>
              ELSE /\ context' = add_rc(context, l)
                   /\ entered' = Bump(entered, l)
                   /\ Push(Frame("children", Callee, <<heap[l]>>, ImmSize(heap[l]),
                                 CalleePath, 0, n))
    /\ Kept
    /\ UNCHANGED layout

(* &T: contains_ref(&self) and add_ref(&self) take the address of the      *)
(* callee's own `self`, a stack slot of this call.  Where the build puts   *)
(* it is not specified beyond this: the slots of calls that are active at  *)
(* the same time differ, and a call path always gets the same slot.        *)
LayoutKey == [o |-> order, p |-> CalleePath]
UsedSlots == {layout[k] : k \in {x \in DOMAIN layout : x.o = order}}
LiveSlots == {stack[j].slot : j \in 1..Len(stack)}
SlotChoices ==
    IF LayoutKey \in DOMAIN layout THEN {layout[LayoutKey]}
    ELSE (UsedSlots \cup {Max(UsedSlots \cup {0}) + 1}) \ LiveSlots

RefIdentity(slot, l) == slot

Ref_children ==
    /\ CanCall
    /\ Callee.kind = "Ref"
    /\ \E slot \in SlotChoices :
        LET l == Callee.loc
            n == visits[l] + 1
            ptr == RefIdentity(slot, l)
        IN  /\ layout' = IF LayoutKey \in DOMAIN layout THEN layout
                         ELSE layout @@ (LayoutKey :> slot)
            /\ visits' = Bump(visits, l)
            /\ IF contains_ref(context, ptr)
               THEN /\ Push(Frame("children", Callee, <<>>, 0, CalleePath, slot, n))
                    /\ UNCHANGED <<context, entered>>
               ELSE /\ context' = add_ref(context, ptr)
                    /\ entered' = Bump(entered, l)
                    /\ Push(Frame("children", Callee, <<heap[l]>>, ImmSize(heap[l]),
                                  CalleePath, slot, n))
    /\ Kept

(* Vec<T>: fold over the elements; capacity * size_of::<T>() is added on return *)
Vec_children ==
    /\ CanCall
    /\ Callee.kind = "Vec"
    /\ Push(Frame("children", Callee, Callee.kids, 0, CalleePath, 0, 0))
    /\ Kept
    /\ UNCHANGED <<context, layout, visits, entered>>

(* LinkedList<T>: fold over the elements *)
LinkedList_children ==
    /\ CanCall
    /\ Callee.kind = "List"
    /\ Push(Frame("children", Callee, Callee.kids, 0, CalleePath, 0, 0))
    /\ Kept
    /\ UNCHANGED <<context, layout, visits, entered>>

(* HashMap<K, V, S>: fold over the entries, key then value *)
HashMap_children ==
    /\ CanCall
    /\ Callee.kind = "Map"
    /\ Push(Frame("children", Callee, Callee.kids, 0, CalleePath, 0, 0))
    /\ Kept
    /\ UNCHANGED <<context, layout, visits, entered>>

(* deep_size_tuple!: 0 + self.0.deep_size_of_children(context) + ... *)
tuple_children ==
    /\ CanCall
    /\ Callee.kind = "Tuple"
    /\ Push(Frame("children", Callee, Callee.kids, 0, CalleePath, 0, 0))
    /\ Kept
    /\ UNCHANGED <<context, layout, visits, entered>>

(* The derived impl: the expression deepsize_sum generated for the type *)
DerivedCalls(v) == [j \in 1..Len(expanded.sum) |-> v.kids[expanded.sum[j]]]

derived_children ==
    /\ CanCall
    /\ Callee.kind = "Struct"
    /\ Push(Frame("children", Callee, DerivedCalls(Callee), 0, CalleePath, 0, 0))
    /\ Kept
    /\ UNCHANGED <<context, layout, visits, entered>>

----------------------------------------------------------------------------
(* Returning *)

RetOf_len(f) ==
    CASE f.fn = "deep_size_of" -> f.acc
      [] f.val.kind = "Vec" -> f.acc + Len(f.val.kids) * f.val.et.k
      [] f.val.kind = "Map" -> f.acc + f.val.cap * BucketSize(f.val.et)
      [] OTHER -> f.acc

RetOf_used_buckets(f) ==
    CASE f.fn = "deep_size_of" -> f.acc
      [] f.val.kind = "Vec" -> f.acc + f.val.cap * f.val.et.k
      [] f.val.kind = "Map" -> f.acc + (Len(f.val.kids) \div 2) * BucketSize(f.val.et)
      [] OTHER -> f.acc

(* What a finished call returns *)
RetOf(f) ==
    CASE f.fn = "deep_size_of" -> f.acc
      [] f.val.kind = "Vec" -> f.acc + f.val.cap * f.val.et.k
      [] f.val.kind = "Map" -> f.acc + f.val.cap * BucketSize(f.val.et)
      [] OTHER -> f.acc

Added_no_overhead(caller, v, ret) ==
    IF caller.fn = "children" /\ caller.val.kind = "List"
    THEN ImmSize(v) + ret
    ELSE ret

Added_full_member(caller, v, ret) ==
    IF caller.fn = "children" /\ caller.val.kind = "List"
    THEN ImmSize(v) + ret + PtrW * 2
    ELSE IF caller.fn = "children" /\ caller.val.kind \in {"Tuple", "Struct"}
         THEN ImmSize(v) + ret
         ELSE ret

(* What the caller adds to its sum for a call that returned `ret` *)
Added(caller, v, ret) ==
    IF caller.fn = "children" /\ caller.val.kind = "List"
    THEN ImmSize(v) + ret + PtrW * 2
    ELSE ret

Done(f) == f.i > Len(f.kids)

Return ==
    /\ phase = "measuring"
    /\ Len(stack) >= 2
    /\ Done(Top)
    /\ LET f == Top
           r == RetOf(f)
           d == Len(stack) - 1
       IN  /\ stack' = [SubSeq(stack, 1, d) EXCEPT
                          ![d].acc = @ + Added(stack[d], f.val, r),
                          ![d].rets = Append(@, [val |-> f.val, ret |-> r])]
           /\ returned' = [fn |-> f.fn, val |-> f.val, ret |-> r, rets |-> f.rets,
                           nth |-> f.nth, path |-> f.path]
    /\ UNCHANGED <<subject, heap, phase, expanded, order, root, context, total,
                   prev, layout, visits, entered>>

(* deep_size_of returns; its Context is dropped with it *)
Finish ==
    /\ phase = "measuring"
    /\ Len(stack) = 1
    /\ Done(Top)
    /\ total' = RetOf(Top)
    /\ returned' = [fn |-> Top.fn, val |-> Top.val, ret |-> RetOf(Top),
                    rets |-> Top.rets, nth |-> 0, path |-> <<>>]
    /\ stack' = <<>>
    /\ phase' = "done"
    /\ UNCHANGED <<subject, heap, expanded, order, root, context, prev, layout,
                   visits, entered>>

(* A call with no stack left: the process dies *)
StackOverflow ==
    /\ phase = "measuring"
    /\ stack # <<>>
    /\ Len(stack) >= MaxDepth
    /\ Top.i <= Len(Top.kids)
    /\ phase' = "overflow"
    /\ UNCHANGED <<subject, heap, expanded, order, root, context, stack, returned,
                   total, prev, layout, visits, entered>>

Next ==
    \/ derive_deep_size
    \/ \E p \in Orders(subject) : deep_size_of(p)
    \/ known_deep_size
    \/ String_children
    \/ Box_children
    \/ Arc_children
    \/ Rc_children
    \/ Ref_children
    \/ Vec_children
    \/ LinkedList_children
    \/ HashMap_children
    \/ tuple_children
    \/ derived_children
    \/ Return
    \/ Finish
    \/ StackOverflow

Spec == Init /\ [][Next]_vars

----------------------------------------------------------------------------
(* What a value owns, counted by allocation rather than by traversal *)

(* Heap bytes a value owns exclusively: nothing behind Arc, Rc or & *)
RECURSIVE Own(_)
Own(v) ==
    LET kidsOwn == SumSeq([i \in DOMAIN v.kids |-> Own(v.kids[i])])
    IN  CASE v.kind = "String" -> v.cap
          [] v.kind = "Box" -> ImmSize(v.kids[1]) + kidsOwn
          [] v.kind = "Vec" -> v.cap * v.et.k + kidsOwn
          [] v.kind = "List" ->
                SumSeq([i \in DOMAIN v.kids |-> ImmSize(v.kids[i]) + 2 * PtrW]) + kidsOwn
          [] v.kind = "Map" -> v.cap * BucketSize(v.et) + kidsOwn
          [] v.kind \in {"Tuple", "Struct"} -> kidsOwn
          [] OTHER -> 0

(* The full size of what is stored at each location of S, each once *)
RECURSIVE SumLocs(_)
SumLocs(S) ==
    IF S = {} THEN 0
    ELSE LET l == CHOOSE x \in S : TRUE
         IN  ImmSize(heap[l]) + Own(heap[l]) + SumLocs(S \ {l})

OwnedOnce(v) == Own(v) + SumLocs(Reach(v, heap, {}))

RefFree(v) == Reach(v, heap, {}) \cap RefLocs = {}

IsCall(k) == returned.fn = "children" /\ returned.val.kind = k

RetSum == SumSeq([i \in DOMAIN returned.rets |-> returned.rets[i].ret])

FullSum == SumSeq([i \in DOMAIN returned.rets |->
                      ImmSize(returned.rets[i].val) + returned.rets[i].ret])

(* every call the returned call made was on the matching child, in order *)
CalledEachKid ==
    /\ Len(returned.rets) = Len(returned.val.kids)
    /\ \A i \in DOMAIN returned.rets : returned.rets[i].val = returned.val.kids[i]

----------------------------------------------------------------------------
(* C1: within one deep_size_of call, the pointee of an Arc or Rc is        *)
(* recursed into at most once; the first visit of the allocation returns   *)
(* the pointee's immediate size plus its owned children, every later visit *)
(* returns 0; and for a value without borrowed references the total is the *)
(* value's immediate size plus every owned or shared allocation once.      *)
C1_SharedCountedOnce ==
    /\ \A l \in ArcLocs \cup RcLocs : entered[l] <= 1
    /\ (IsCall("Arc") \/ IsCall("Rc")) =>
          IF returned.nth = 1
          THEN /\ Len(returned.rets) = 1
               /\ returned.rets[1].val = heap[returned.val.loc]
               /\ returned.ret = ImmSize(heap[returned.val.loc]) + returned.rets[1].ret
          ELSE returned.ret = 0 /\ returned.rets = <<>>
    /\ (phase = "done" /\ RefFree(root)) =>
          total = ImmSize(root) + OwnedOnce(root)

C1_Witness ==
    /\ phase = "done"
    /\ RefFree(root)
    /\ \E l \in ArcLocs : visits[l] >= 2 /\ entered[l] = 1 /\ heap[l].kind = "Tuple"
    /\ total = ImmSize(root) + OwnedOnce(root)

----------------------------------------------------------------------------
(* C2: an aggregate of two borrowed references to one target totals the    *)
(* aggregate's immediate size plus the target's full size, once.           *)
TwoRefsToOne(v) ==
    /\ v.kind = "Struct"
    /\ Len(v.kids) = 2
    /\ v.kids[1].kind = "Ref"
    /\ v.kids[2] = v.kids[1]

C2_AliasedRefsOnce ==
    (phase = "done" /\ TwoRefsToOne(root)) =>
        total = ImmSize(root) + OwnedOnce(root)

----------------------------------------------------------------------------
(* C3: each deep_size_of call starts on an empty Context, and measuring    *)
(* the same unchanged value again returns the same total.                  *)
C3_FreshContextPerCall ==
    /\ (phase = "measuring" /\ Len(stack) = 1 /\ Top.i = 1) => context = Context_new
    /\ (phase = "done" /\ prev.total # -1 /\ prev.order = order) => total = prev.total

C3_Witness ==
    /\ phase = "done"
    /\ prev.total = total
    /\ prev.order = order
    /\ \E l \in ArcLocs \cup RcLocs : entered[l] = 1 /\ visits[l] >= 2
    /\ total > ImmSize(root)

----------------------------------------------------------------------------
(* C4: Vec<T> with N elements of size E and capacity C returns the sum of  *)
(* the elements' owned children plus C * E, which is the sum of the        *)
(* elements' full sizes plus (C - N) * E; 13 bytes in capacity 16 give 16. *)
C4_VecCapacity ==
    IsCall("Vec") =>
        LET N == Len(returned.val.kids)
            E == returned.val.et.k
            C == returned.val.cap
        IN  /\ C >= N
            /\ CalledEachKid
            /\ \A i \in 1..N : ImmSize(returned.val.kids[i]) = E
            /\ returned.ret = RetSum + C * E
            /\ returned.ret = FullSum + (C - N) * E
            /\ (N = 13 /\ C = 16 /\ E = 1) => returned.ret = 16

C4_Witness ==
    /\ IsCall("Vec")
    /\ returned.val = VecOf(Rep(Prim(1), 13), 16, 1)
    /\ returned.ret = 16

----------------------------------------------------------------------------
(* C5: measuring the same aggregate with its fields in another order       *)
(* returns the same total (the build placing the calls of both orders the  *)
(* same way).                                                              *)
SameLayout ==
    \A k1, k2 \in DOMAIN layout : k1.p = k2.p => layout[k1] = layout[k2]

C5_OrderIndependent ==
    (phase = "done" /\ prev.total # -1 /\ SameLayout) => total = prev.total

----------------------------------------------------------------------------
(* C6: every cycle of the measured graphs passes through an Arc, an Rc or  *)
(* a borrowed reference, so the measurement never runs out of stack and no *)
(* tracked allocation on a cycle is recursed into twice in one traversal.  *)
OnCycle(l) == l \in Reach(heap[l], heap, {})

C6_CyclesTerminate ==
    /\ phase # "overflow"
    /\ \A l \in Locs : OnCycle(l) => entered[l] <= 1

----------------------------------------------------------------------------
----------------------------------------------------------------------------
(* C8: the derived deep_size_of_children calls deep_size_of_children on    *)
(* every field once, in order, under the one Context, and returns the sum; *)
(* 0 without fields; struct { a: u32, b: Box<u8> } totals its size + 1.    *)
C8_DerivedSum ==
    /\ IsCall("Struct") =>
          /\ CalledEachKid
          /\ returned.ret = RetSum
          /\ returned.val.kids = <<>> => returned.ret = 0
    /\ (phase = "done" /\ root.kind = "Struct"
          /\ root.kids = <<Prim(4), BoxOf(Prim(1))>>) =>
              /\ ImmSize(root) = 16
              /\ total = ImmSize(root) + 1

C8_Witness ==
    /\ phase = "done"
    /\ root = StructOf("Named", <<Prim(4), BoxOf(Prim(1))>>)
    /\ total = 17

----------------------------------------------------------------------------
(* C9 as stated: HashMap with N entries and capacity C returns the keys'   *)
(* and values' full sizes plus (C - N) * (size of K + size of V).          *)
MapN == Len(returned.val.kids) \div 2

C9_MapSlackKeyValue ==
    IsCall("Map") =>
        returned.ret = FullSum + (returned.val.cap - MapN)
                                    * (returned.val.et.k + returned.val.et.v)

(* C9 amended: it returns the keys' and values' owned children plus        *)
(* C * size_of::<Option<(u64, K, V)>>(): every bucket of the capacity,     *)
(* used or not, is charged a 64-bit hash, the key and the value, padded.   *)
C9_MapBuckets ==
    IsCall("Map") =>
        LET C == returned.val.cap
            B == BucketSize(returned.val.et)
            KV == returned.val.et.k + returned.val.et.v
        IN  /\ CalledEachKid
            /\ C >= MapN
            /\ B >= 8 + KV
            /\ returned.ret = RetSum + C * B
            /\ returned.ret = FullSum + (C - MapN) * KV + C * (B - KV)

C9_Witness ==
    /\ IsCall("Map")
    /\ MapN = 2
    /\ returned.val.cap = 3
    /\ returned.val.kids[2].kind = "Arc"
    /\ returned.ret > FullSum + returned.val.et.k + returned.val.et.v

----------------------------------------------------------------------------
(* C10: LinkedList<T> returns, summed over its elements, the element's     *)
(* immediate size, its owned children and two pointer widths; 0 when       *)
(* empty; 13 * (1 + 2 * 8) for 13 one-byte elements.                       *)
C10_ListNodes ==
    IsCall("List") =>
        /\ CalledEachKid
        /\ returned.ret = FullSum + Len(returned.val.kids) * (2 * PtrW)
        /\ returned.val.kids = <<>> => returned.ret = 0
        /\ returned.val = ListOf(Rep(Prim(1), 13)) => returned.ret = 13 * (1 + 2 * PtrW)

C10_Witness ==
    /\ IsCall("List")
    /\ returned.val = ListOf(Rep(Prim(1), 13))
    /\ returned.ret = 221

----------------------------------------------------------------------------
(* C11: a borrowed reference returns 0 exactly when a reference to the     *)
(* same referent was visited earlier in the traversal; the first visit of  *)
(* a referent marks it and returns the referent's immediate size plus its  *)
(* owned children; so an aggregate of references to two distinct targets   *)
(* totals its immediate size plus both targets in full.                    *)
TwoRefsToTwo(v) ==
    /\ v.kind = "Struct"
    /\ Len(v.kids) = 2
    /\ v.kids[1].kind = "Ref"
    /\ v.kids[2].kind = "Ref"
    /\ v.kids[1].loc # v.kids[2].loc

C11_RefByReferent ==
    /\ IsCall("Ref") =>
          IF returned.nth = 1
          THEN /\ Len(returned.rets) = 1
               /\ returned.rets[1].val = heap[returned.val.loc]
               /\ returned.ret = ImmSize(heap[returned.val.loc]) + returned.rets[1].ret
          ELSE returned.ret = 0 /\ returned.rets = <<>>
    /\ (phase = "done" /\ TwoRefsToTwo(root)) =>
          total = ImmSize(root) + OwnedOnce(root)

----------------------------------------------------------------------------
(* The Context driven directly, as the crate's context tests do: a new     *)
(* Context, then identities of one address space marked as any kind.       *)

MaxAddr == 3        \* addresses handed to the Context

Addrs == 1..MaxAddr

ContextInit ==
    /\ subject = StructOf("Unit", <<>>)
    /\ heap = [l \in Locs |-> DefaultContent(l)]
    /\ phase = "idle"
    /\ expanded = NotExpanded
    /\ order = <<>>
    /\ root = subject
    /\ context = Context_new
    /\ stack = <<>>
    /\ returned = NoReturn
    /\ total = 0
    /\ prev = NoPrev
    /\ layout = <<>>
    /\ visits = Zeroes
    /\ entered = Zeroes

ContextKept ==
    UNCHANGED <<subject, heap, phase, expanded, order, root, stack, returned,
                total, prev, layout, visits, entered>>

context_arc_test(p) == context' = add_arc(context, p) /\ ContextKept
context_rc_test(p)  == context' = add_rc(context, p) /\ ContextKept
context_ref_test(p) == context' = add_ref(context, p) /\ ContextKept

ContextNext ==
    \E p \in Addrs :
        \/ context_arc_test(p)
        \/ context_rc_test(p)
        \/ context_ref_test(p)

ContextSpec == ContextInit /\ [][ContextNext]_vars

SeenArc(c) == {p \in Addrs : contains_arc(c, p)}
SeenRc(c)  == {p \in Addrs : contains_rc(c, p)}
SeenRef(c) == {p \in Addrs : contains_ref(c, p)}

(* C12: marking an identity in one set of the Context leaves the other two *)
(* sets unchanged, so an address marked as one kind is reported as seen    *)
(* for another kind exactly as it was before the marking.                  *)
C12_DisjointIdentitySpaces ==
    [][ /\ SeenArc(context') # SeenArc(context) =>
              /\ context'.rcs = context.rcs /\ context'.refs = context.refs
              /\ SeenRc(context') = SeenRc(context)
              /\ SeenRef(context') = SeenRef(context)
        /\ SeenRc(context') # SeenRc(context) =>
              /\ context'.arcs = context.arcs /\ context'.refs = context.refs
              /\ SeenArc(context') = SeenArc(context)
              /\ SeenRef(context') = SeenRef(context)
        /\ SeenRef(context') # SeenRef(context) =>
              /\ context'.arcs = context.arcs /\ context'.rcs = context.rcs
              /\ SeenArc(context') = SeenArc(context)
              /\ SeenRc(context') = SeenRc(context) ]_vars

C12_Witness ==
    /\ contains_arc(context, 1) /\ ~contains_rc(context, 1) /\ ~contains_ref(context, 1)
    /\ contains_rc(context, 2) /\ ~contains_arc(context, 2) /\ ~contains_ref(context, 2)
    /\ contains_ref(context, 3) /\ ~contains_arc(context, 3) /\ ~contains_rc(context, 3)

----------------------------------------------------------------------------
(* C13 as stated: a tuple or struct whose members own further values       *)
(* returns the sum of its members' full sizes, immediate size included.    *)
IsAggregateCall == IsCall("Tuple") \/ IsCall("Struct")

MemberSizes == SumSeq([i \in DOMAIN returned.val.kids |-> ImmSize(returned.val.kids[i])])

C13_MembersFullSize ==
    (IsAggregateCall /\ RetSum > 0) => returned.ret = FullSum

(* C13 amended: it calls deep_size_of_children on every member and returns *)
(* the sum of the members' owned children only; the members' immediate     *)
(* sizes are inside the aggregate's own immediate size and are not added.  *)
C13_MembersChildrenOnly ==
    IsAggregateCall =>
        /\ CalledEachKid
        /\ returned.ret = RetSum
        /\ returned.ret = FullSum - MemberSizes
        /\ ImmSize(returned.val) >= MemberSizes

C13_Witness ==
    /\ IsCall("Tuple")
    /\ Len(returned.val.kids) = 2
    /\ returned.ret > 0
    /\ returned.ret < FullSum
    /\ MemberSizes = 2 * PtrW

----------------------------------------------------------------------------
(* C14: during a traversal each visited set of the Context only grows.     *)
(* A deep_size_of call starts on a Context that reports every identity as  *)
(* not seen; in every later step an identity that was seen stays seen;     *)
(* a visit that finds its identity seen leaves the Context unchanged; a    *)
(* visit that does not find it inserts exactly that identity, into its own *)
(* set, so no identity is inserted twice.                                  *)
Slots == 1..MaxDepth

StartsTraversal == phase # "measuring" /\ phase' = "measuring"

PointerVisit(k) ==
    /\ Len(stack') = Len(stack) + 1
    /\ Top'.fn = "children"
    /\ Top'.val.kind = k

FoundSeen == Top'.kids = <<>>

====
